---------------------------- MODULE Spec2Model ----------------------------
(***************************************************************************)
(* A model of jsite-cache: the Stat accumulator and the Cache store        *)
(* (src/unnamed/part_001, the Stat class of lines 1-84 and the Cache class *)
(* of lines 655-1069).                                                     *)
(*                                                                         *)
(* JavaScript values are records [t |-> tag, v |-> content].  A JavaScript *)
(* string is the sequence of its characters, so that JSON.stringify,       *)
(* split and trim are computed, not assumed.  Numbers held by a Stat are   *)
(* rationals <<numerator, denominator>>.                                   *)
(***************************************************************************)
EXTENDS Integers, Sequences, FiniteSets, TLC

(***************************************************************************)
(* Bounds of the model.                                                    *)
(***************************************************************************)
\* the clock (Date().getTime()) runs over 0..MaxTime
MaxTime == 2
\* calls made on the store in one behaviour
MaxSteps == 2
\* async use calls in flight at once
MaxCalls == 2
\* stores given to fromMerge in one call
MaxCaches == 2
\* samples of a Stat that toCompact is applied to
MaxSamples == 4

(***************************************************************************)
(* The state.                                                              *)
(***************************************************************************)
VARIABLES
    data,       \* this.data
    options,    \* this.options
    now,        \* the clock, new Date().getTime()
    calls,      \* the async use calls that invoked func: [func, args, pc, fn, v, ret]
    steps,      \* the number of calls made
    last,       \* the last call: its name, arguments, result
    pre         \* this.data before the last call

vars == <<data, options, now, calls, steps, last, pre>>

(***************************************************************************)
(* JavaScript values.                                                      *)
(***************************************************************************)
Undefined == [t |-> "undefined", v |-> <<>>]
Null == [t |-> "null", v |-> <<>>]
NaN == [t |-> "nan", v |-> <<>>]
Bool(b) == [t |-> "bool", v |-> b]
Num(n) == [t |-> "num", v |-> n]
Str(chars) == [t |-> "str", v |-> chars]
Arr(items) == [t |-> "arr", v |-> items]
\* an object: the sequence of its <<name, value>> properties, in insertion order
Obj(props) == [t |-> "obj", v |-> props]
\* a callable: the characters of its source text, String(fn)
Fn(src) == [t |-> "fn", v |-> src]

\* an object that refers to itself: a = {}; a.self = a
Cyclic == [t |-> "cyclic", v |-> <<>>]

\* JSON.stringify(x) throws a TypeError: x holds a circular structure
RECURSIVE HasCycle(_)
HasCycle(x) ==
    CASE x.t = "cyclic" -> TRUE
      [] x.t = "arr" -> \E i \in DOMAIN x.v : HasCycle(x.v[i])
      [] x.t = "obj" -> \E i \in DOMAIN x.v : HasCycle(x.v[i][2])
      [] OTHER -> FALSE

\* ToBoolean
Truthy(x) ==
    CASE x.t = "undefined" -> FALSE
      [] x.t = "null" -> FALSE
      [] x.t = "nan" -> FALSE
      [] x.t = "bool" -> x.v
      [] x.t = "num" -> x.v # 0
      [] x.t = "str" -> x.v # <<>>
      [] OTHER -> TRUE

\* the escapes JSON.stringify applies inside a string
EscapeChar(c) ==
    CASE c = "\"" -> <<"\\", "\"">>
      [] c = "\\" -> <<"\\", "\\">>
      [] c = "\n" -> <<"\\", "n">>
      [] OTHER -> <<c>>

RECURSIVE Escape(_)
Escape(s) == IF s = <<>> THEN <<>> ELSE EscapeChar(Head(s)) \o Escape(Tail(s))

Quote(s) == <<"\"">> \o Escape(s) \o <<"\"">>

\* JSON.stringify of a value inside an array or an object
RECURSIVE Ser(_)
RECURSIVE SerItems(_)
RECURSIVE SerProps(_)
Ser(x) ==
    CASE x.t = "null" -> <<"null">>
      [] x.t = "nan" -> <<"null">>
      [] x.t = "bool" -> IF x.v THEN <<"true">> ELSE <<"false">>
      [] x.t = "num" -> <<ToString(x.v)>>
      [] x.t = "str" -> Quote(x.v)
      [] x.t = "arr" -> <<"[">> \o SerItems(x.v) \o <<"]">>
      [] x.t = "obj" -> <<"{">> \o SerProps(x.v) \o <<"}">>
      [] OTHER -> <<"null">>

SerItems(items) ==
    IF items = <<>> THEN <<>>
    ELSE Ser(Head(items)) \o
         (IF Tail(items) = <<>> THEN <<>> ELSE <<",">> \o SerItems(Tail(items)))

\* properties holding undefined or a function are left out
SerProps(props) ==
    IF props = <<>> THEN <<>>
    ELSE LET p == Head(props)
             rest == SerProps(Tail(props))
         IN  IF p[2].t \in {"undefined", "fn"} THEN rest
             ELSE Quote(p[1]) \o <<":">> \o Ser(p[2]) \o
                  (IF rest = <<>> THEN <<>> ELSE <<",">> \o rest)

\* JSON.stringify(x): a string, or undefined for undefined and for a function
JSON_stringify(x) ==
    IF x.t \in {"undefined", "fn"} THEN Undefined ELSE Str(Ser(x))

\* String(key).split("\n")[0]
RECURSIVE FirstLine(_)
FirstLine(s) ==
    IF s = <<>> \/ Head(s) = "\n" THEN <<>> ELSE <<Head(s)>> \o FirstLine(Tail(s))

RECURSIVE TrimLeft(_)
TrimLeft(s) == IF s # <<>> /\ Head(s) = " " THEN TrimLeft(Tail(s)) ELSE s

RECURSIVE TrimRight(_)
TrimRight(s) ==
    IF s # <<>> /\ s[Len(s)] = " " THEN TrimRight(SubSeq(s, 1, Len(s) - 1)) ELSE s

Trim(s) == TrimRight(TrimLeft(s))

\* the property name a value is used as in this.data[key]
ToPropertyKey(x) ==
    CASE x.t = "str" -> x.v
      [] x.t = "undefined" -> <<"u", "n", "d", "e", "f", "i", "n", "e", "d">>
      [] x.t = "null" -> <<"n", "u", "l", "l">>
      [] x.t = "num" -> <<ToString(x.v)>>
      [] OTHER -> Ser(x)

\* Cache.formatKey(key) throws: its JSON.stringify (line 701) does
formatKeyThrows(key) == Truthy(key) /\ key.t # "fn" /\ HasCycle(key)

\* Cache.formatKey
formatKey(key) ==
    IF ~Truthy(key) THEN key
    ELSE IF key.t = "fn" THEN JSON_stringify(Str(Trim(FirstLine(key.v))))
    ELSE JSON_stringify(key)


(***************************************************************************)
(* Rational numbers <<n, d>>, d > 0, in lowest terms: the samples of a     *)
(* Stat.  Time gaps are whole numbers, the fill value of fromCompact is a  *)
(* quotient.                                                               *)
(***************************************************************************)
RECURSIVE GCD(_, _)
GCD(a, b) == IF b = 0 THEN a ELSE GCD(b, a % b)

Abs(n) == IF n < 0 THEN -n ELSE n

QNorm(n, d) ==
    LET g == GCD(Abs(n), d)
    IN  IF n = 0 THEN <<0, 1>> ELSE <<n \div g, d \div g>>

Q(n) == <<n, 1>>
QAdd(x, y) == QNorm(x[1] * y[2] + y[1] * x[2], x[2] * y[2])
QSub(x, y) == QNorm(x[1] * y[2] - y[1] * x[2], x[2] * y[2])
QLess(x, y) == x[1] * y[2] < y[1] * x[2]
\* x / k for a whole number k > 0
QDivInt(x, k) == QNorm(x[1], x[2] * k)

(***************************************************************************)
(* Stat (src/unnamed/part_001, lines 3-84).                                *)
(*   [form |-> "Stat", values]      an instance of the class               *)
(*   [form |-> "compact", count, min, max, sum, last]                      *)
(*                                  a plain object with the compact fields *)
(*   [form |-> "plain", values]     any other plain object                 *)
(***************************************************************************)
\* new Stat(values)
Stat_new(values) == [form |-> "Stat", values |-> values]

\* Stat.add(item)
Stat_add(s, item) == [s EXCEPT !.values = Append(@, item)]

\* Stat.getLast(fallback)
Stat_getLast(s, fallback) ==
    IF Len(s.values) > 0 THEN s.values[Len(s.values)] ELSE fallback

\* Stat.getCount()
Stat_getCount(s) == Len(s.values)

\* Infinity and -Infinity, what Math.min() and Math.max() give for no values
PlusInfinity == <<1, 0>>
MinusInfinity == <<-1, 0>>

\* Stat.getMax(): Math.max(...this.values)
Stat_getMax(s) ==
    IF s.values = <<>> THEN MinusInfinity
    ELSE CHOOSE x \in {s.values[i] : i \in DOMAIN s.values} :
             \A i \in DOMAIN s.values : ~QLess(x, s.values[i])

\* Stat.getMin(): Math.min(...this.values)
Stat_getMin(s) ==
    IF s.values = <<>> THEN PlusInfinity
    ELSE CHOOSE x \in {s.values[i] : i \in DOMAIN s.values} :
             \A i \in DOMAIN s.values : ~QLess(s.values[i], x)

\* Stat.getSum(): the values added up from 0
RECURSIVE SumOf(_)
SumOf(values) ==
    IF values = <<>> THEN Q(0)
    ELSE QAdd(SumOf(SubSeq(values, 1, Len(values) - 1)), values[Len(values)])

Stat_getSum(s) == SumOf(s.values)

\* 0 / 0
QNaN == <<0, 0>>

\* an average over the gaps between the values, one fewer than the values
Stat_getAverageOfGaps(s) ==
    IF Stat_getCount(s) = 0 THEN QNaN
    ELSE QDivInt(Stat_getSum(s), Stat_getCount(s) - 1)

\* Stat.getAverage(): this.getSum() / this.getCount()
Stat_getAverage(s) ==
    IF Stat_getCount(s) = 0 THEN QNaN
    ELSE QDivInt(Stat_getSum(s), Stat_getCount(s))

\* Stat.round(number): Math.round((number + Number.EPSILON) * 100) / 100, the
\* nearest hundredth, a half going up; an infinity stays what it is
Stat_round(x) ==
    IF x[2] = 0 THEN x
    ELSE QNorm((200 * x[1] + x[2]) \div (2 * x[2]), 100)

\* Stat.toCompact()
Stat_toCompact(s) ==
    [form |-> "compact",
     count |-> Stat_getCount(s),
     max |-> Stat_round(Stat_getMax(s)),
     min |-> Stat_round(Stat_getMin(s)),
     sum |-> Stat_round(Stat_getSum(s)),
     last |-> Stat_getLast(s, Q(0))]

\* new Array(n).fill(x)
Fill(n, x) == [i \in 1..n |-> x]

\* Stat.fromCompact(values): [threw, stat]; new Array(n) with n < 0 throws a
\* RangeError
Stat_fromCompact(x) ==
    IF x.form = "Stat" THEN [threw |-> FALSE, stat |-> x]
    ELSE IF x.form = "compact" THEN
        LET u0 == <<x.last>>
            u1 == IF QLess(x.min, x.last) THEN <<x.min>> \o u0 ELSE u0
            uncompact == IF QLess(x.last, x.max) THEN <<x.max>> \o u1 ELSE u1
            n == x.count - Len(uncompact)
        IN  IF n < 0 THEN [threw |-> TRUE, stat |-> x]
            ELSE IF n = 0 THEN [threw |-> FALSE, stat |-> Stat_new(uncompact)]
            ELSE [threw |-> FALSE,
                  stat |-> Stat_new(Fill(n, QDivInt(QSub(QSub(x.sum, x.min), x.max), n))
                                    \o uncompact)]
    ELSE [threw |-> FALSE, stat |-> Stat_new(<<>>)]

(***************************************************************************)
(* The Cache store (src/unnamed/part_001, lines 655-1069).                 *)
(* this.data is a function from property names (strings) to functions from *)
(* property names to records [data, set, changed, used, age_max]; age_max  *)
(* is <<>> when the record has none and <<n>> when it is n.                *)
(* Every operation is an operator from the store, its arguments and the    *)
(* clock to [store, ret, threw]: the store it leaves, what it returns and  *)
(* whether it threw.                                                       *)
(***************************************************************************)
EmptyObject == [x \in {} |-> x]

\* Object.prototype.hasOwnProperty.call(obj, name)
hasOwnProperty(obj, name) == ToPropertyKey(name) \in DOMAIN obj

\* obj[name] = value
PutProperty(obj, name, value) ==
    [x \in DOMAIN obj \cup {ToPropertyKey(name)} |->
        IF x = ToPropertyKey(name) THEN value ELSE obj[x]]

\* delete obj[name]
DeleteProperty(obj, name) ==
    [x \in DOMAIN obj \ {ToPropertyKey(name)} |-> obj[x]]

\* the record set() creates, lines 904-909
NewRecord(d, t) ==
    [data |-> d, set |-> t, changed |-> Stat_new(<<>>), used |-> Stat_new(<<>>),
     age_max |-> <<>>]

\* the comparison of line 912
PayloadDiffers(d, stored) == JSON_stringify(d) # JSON_stringify(stored)

\* lines 912-921 on the record rec of the sub-map sub; up is
\* Stat.fromCompact(rec.changed)
SetRecord(store, k, a, sub, rec, up, d, t) ==
    IF PayloadDiffers(d, rec.data) /\ up.threw
    THEN [store |-> PutProperty(store, k, PutProperty(sub, a, rec)),
          ret |-> Undefined, threw |-> TRUE]
    ELSE [store |-> PutProperty(store, k, PutProperty(sub, a,
                        [rec EXCEPT !.changed =
                                        IF PayloadDiffers(d, rec.data)
                                        THEN Stat_add(up.stat,
                                                 QSub(Q(t), Stat_getLast(up.stat, Q(t))))
                                        ELSE @,
                                    !.data = d,
                                    !.set = t])),
          ret |-> d, threw |-> FALSE]

\* line 911: const cache = this.data[key][args]; the comparison of line 912
\* throws when JSON.stringify of either payload does, the record being in
\* the store already
SetInSub(store, k, a, sub, rec, d, t) ==
    IF HasCycle(d) \/ HasCycle(rec.data)
    THEN [store |-> PutProperty(store, k, PutProperty(sub, a, rec)),
          ret |-> Undefined, threw |-> TRUE]
    ELSE SetRecord(store, k, a, sub, rec, Stat_fromCompact(rec.changed), d, t)

\* lines 903-910: the record is created when the sub-map has none
SetInKey(store, k, a, sub, d, t) ==
    SetInSub(store, k, a, sub,
             IF hasOwnProperty(sub, a) THEN sub[ToPropertyKey(a)] ELSE NewRecord(d, t),
             d, t)

\* lines 896-898: the sub-map is created when the key has none
SetFormatted(store, k, a, d, t) ==
    SetInKey(store, k, a,
             IF hasOwnProperty(store, k) THEN store[ToPropertyKey(k)] ELSE EmptyObject,
             d, t)

\* the body of set, lines 895-921, run when data is not undefined
Cache_setWrite(store, key, d, args, t) ==
    IF formatKeyThrows(key) THEN [store |-> store, ret |-> Undefined, threw |-> TRUE]
    ELSE IF formatKeyThrows(args)
    THEN [store |-> IF hasOwnProperty(store, formatKey(key)) THEN store
                    ELSE PutProperty(store, formatKey(key), EmptyObject),
          ret |-> Undefined, threw |-> TRUE]
    ELSE SetFormatted(store, formatKey(key), formatKey(args), d, t)

\* set without the test of line 894
Cache_setUnguarded(store, key, d, args, t) == Cache_setWrite(store, key, d, args, t)

\* Cache.set(key, data, args), lines 893-925
Cache_set(store, key, d, args, t) ==
    IF d # Undefined THEN Cache_setWrite(store, key, d, args, t)
    ELSE [store |-> store, ret |-> d, threw |-> FALSE]

\* the lookup names of inspect, lines 935 and 938: a string is taken as it is
InspectName(x) == IF x.t # "str" THEN formatKey(x) ELSE x

\* the test of lines 940-943 on the names k and a
InspectAt(store, k, a) ==
    IF hasOwnProperty(store, k) /\ hasOwnProperty(store[ToPropertyKey(k)], a)
    THEN [found |-> TRUE, k |-> ToPropertyKey(k), a |-> ToPropertyKey(a)]
    ELSE [found |-> FALSE, k |-> <<>>, a |-> <<>>]

\* Cache.inspect(key, args): [found, k, a], the record being store[k][a]
Cache_inspect(store, key, args) ==
    InspectAt(store, InspectName(key), InspectName(args))

\* cache.age_max || this.options.age_max, line 958
EffectiveAgeMax(rec, opt) ==
    IF rec.age_max # <<>> /\ rec.age_max[1] # 0 THEN rec.age_max[1] ELSE opt.age_max

\* the freshness test with < for <=
IsFreshStrict(rec, t, opt) == t - rec.set < EffectiveAgeMax(rec, opt)

\* the freshness test of line 958
IsFresh(rec, t, opt) == t - rec.set <= EffectiveAgeMax(rec, opt)

\* lines 959-963 on the fresh record rec; up is Stat.fromCompact(rec.used)
GetFresh(store, loc, rec, up, t) ==
    IF up.threw THEN [store |-> store, ret |-> Undefined, threw |-> TRUE]
    ELSE [store |-> [store EXCEPT ![loc.k][loc.a].used =
                        Stat_add(up.stat, QSub(Q(t), Stat_getLast(up.stat, Q(rec.set))))],
          ret |-> rec.data, threw |-> FALSE]

\* lines 956-966 on what inspect found
GetAt(store, loc, t, opt) ==
    IF loc.found /\ IsFresh(store[loc.k][loc.a], t, opt)
    THEN GetFresh(store, loc, store[loc.k][loc.a],
                  Stat_fromCompact(store[loc.k][loc.a].used), t)
    ELSE [store |-> store, ret |-> Undefined, threw |-> FALSE]

\* a get that deletes the record it finds stale
Cache_getEvicting(store, key, args, t, opt) ==
    IF Cache_inspect(store, key, args).found
       /\ GetAt(store, Cache_inspect(store, key, args), t, opt).ret = Undefined
       /\ ~GetAt(store, Cache_inspect(store, key, args), t, opt).threw
    THEN [store |-> [store EXCEPT ![Cache_inspect(store, key, args).k] =
                        DeleteProperty(@, Str(Cache_inspect(store, key, args).a))],
          ret |-> Undefined, threw |-> FALSE]
    ELSE GetAt(store, Cache_inspect(store, key, args), t, opt)

\* Cache.get(key, args), lines 954-967
Cache_get(store, key, args, t, opt) ==
    GetAt(store, Cache_inspect(store, key, args), t, opt)

\* the test without its use_cache(cache) part: any truthy cached value is a hit
UseCacheHitAny(cache, uc) == Truthy(cache)

\* the test of lines 983 and 1011 on the value get returned: use_cache is a
\* boolean, or a predicate [t |-> "pred", v |-> what it answers]
UseCacheHit(cache, uc) == Truthy(cache) /\ (uc.t # "pred" \/ ~uc.v)

\* lines 981-985 and 1009-1013 on what get gave
UseChecked(g, uc) ==
    [store |-> g.store, hit |-> ~g.threw /\ UseCacheHit(g.ret, uc),
     ret |-> g.ret, threw |-> g.threw]

\* the cache check of use and useSync, lines 980-986 and 1008-1014:
\* [store, hit, ret, threw]
Cache_useCheck(store, func, args, uc, t, opt) ==
    IF Truthy(uc) THEN UseChecked(Cache_get(store, func, args, t, opt), uc)
    ELSE [store |-> store, hit |-> FALSE, ret |-> Undefined, threw |-> FALSE]

\* lines 993 and 1021 on what inspect found
UseInspectAt(store, loc) == IF loc.found THEN store[loc.k][loc.a].data ELSE Undefined

\* a fall-back that goes through get, and so gives only a fresh record
Cache_useInspectFresh(store, func, args) ==
    Cache_get(store, func, args, now, options).ret

\* the last lines of use and useSync, 992-994 and 1020-1022
Cache_useInspect(store, func, args) ==
    UseInspectAt(store, Cache_inspect(store, func, args))

\* the result w of a call, with the number of times func was invoked
WithInvoked(w, n) ==
    [store |-> w.store, ret |-> w.ret, threw |-> w.threw, invoked |-> n]

\* useSync after its cache check c, lines 1016-1022
UseSyncAfter(c, func, args, outcome, t) ==
    IF c.threw
    THEN [store |-> c.store, ret |-> Undefined, threw |-> TRUE, invoked |-> 0]
    ELSE IF c.hit
    THEN [store |-> c.store, ret |-> c.ret, threw |-> FALSE, invoked |-> 0]
    ELSE IF func.t = "fn"
    THEN IF outcome.kind = "throw"
         THEN [store |-> c.store, ret |-> Undefined, threw |-> TRUE, invoked |-> 1]
         ELSE WithInvoked(Cache_set(c.store, func, outcome.v, args, t), 1)
    ELSE [store |-> c.store, ret |-> Cache_useInspect(c.store, func, args),
          threw |-> FALSE, invoked |-> 0]

\* Cache.useSync(func, args, use_cache); outcome is what func(...args) does:
\* [kind |-> "return", v] or [kind |-> "throw", v].
\* [store, ret, threw, invoked]
Cache_useSync(store, func, args, uc, outcome, t, opt) ==
    UseSyncAfter(Cache_useCheck(store, func, args, uc, t, opt), func, args, outcome, t)

\* the sequences that list the elements of S once each: the orders
\* Object.keys can give
Orders(S) ==
    {q \in [1..Cardinality(S) -> S] : \A i, j \in 1..Cardinality(S) : i # j => q[i] # q[j]}

\* for every key an order of the names of its sub-map
ArgOrders(store) ==
    {f \in [DOMAIN store -> UNION {Orders(DOMAIN store[k]) : k \in DOMAIN store}] :
        \A k \in DOMAIN store : f[k] \in Orders(DOMAIN store[k])}

\* the test of line 1059 with !get(...) for get(...) === undefined
CleanDropsFalsy(ret) == ~Truthy(ret)

\* the test of line 1059 on what get returned
CleanDrops(ret) == ret = Undefined

\* lines 1059-1061 on what get gave for the name: the store the loop goes on with
CleanName(g, k, name) ==
    IF CleanDrops(g.ret) THEN [g.store EXCEPT ![k] = DeleteProperty(@, Str(name))]
    ELSE g.store

\* the inner loop of clean, lines 1058-1062: [store, threw]
RECURSIVE CleanArgs(_, _, _, _, _)
CleanArgsStep(g, k, names, t, opt) ==
    IF g.threw THEN [store |-> g.store, threw |-> TRUE]
    ELSE CleanArgs(CleanName(g, k, Head(names)), k, Tail(names), t, opt)

CleanArgs(store, k, names, t, opt) ==
    IF names = <<>> THEN [store |-> store, threw |-> FALSE]
    ELSE CleanArgsStep(Cache_get(store, Str(k), Str(Head(names)), t, opt),
                       k, names, t, opt)

\* lines 1064-1066: a key left without names is deleted
CleanKey(store, k) ==
    IF DOMAIN store[k] = {} THEN DeleteProperty(store, Str(k)) ELSE store

\* Cache.clean(), the keys and names taken in the orders keys and names:
\* [store, threw]
RECURSIVE Cache_clean(_, _, _, _, _)
CleanStep(r, keys, names, t, opt) ==
    IF r.threw THEN r
    ELSE Cache_clean(CleanKey(r.store, Head(keys)), Tail(keys), names, t, opt)

Cache_clean(store, keys, names, t, opt) ==
    IF keys = <<>> THEN [store |-> store, threw |-> FALSE]
    ELSE CleanStep(CleanArgs(store, Head(keys), names[Head(keys)], t, opt),
                   keys, names, t, opt)

\* unset with a key that formatKey does not leave undefined, lines 1042-1046;
\* delete this.data[key][args] throws a TypeError when this.data[key] is
\* undefined
UnsetKey(store, k, a) ==
    IF a = Undefined THEN [store |-> DeleteProperty(store, k), threw |-> FALSE]
    ELSE IF hasOwnProperty(store, k)
    THEN [store |-> [store EXCEPT ![ToPropertyKey(k)] = DeleteProperty(@, a)],
          threw |-> FALSE]
    ELSE [store |-> store, threw |-> TRUE]

\* the loop of line 1040: this.unset(key, args) for every key, each call
\* formatting the key and the (already formatted) args again
RECURSIVE UnsetEach(_, _, _)
UnsetEachStep(r, keys, a) ==
    IF r.threw THEN r ELSE UnsetEach(r.store, Tail(keys), a)

UnsetEach(store, keys, a) ==
    IF keys = <<>> THEN [store |-> store, threw |-> FALSE]
    ELSE UnsetEachStep(UnsetKey(store, formatKey(Str(Head(keys))), formatKey(a)),
                       keys, a)

\* lines 1036-1046 on the formatted key and args
UnsetFormatted(store, k, a, keys) ==
    IF k = Undefined
    THEN IF a = Undefined THEN [store |-> EmptyObject, threw |-> FALSE]
         ELSE UnsetEach(store, keys, a)
    ELSE UnsetKey(store, k, a)

\* Cache.unset(key, args), the keys taken in the order keys: [store, threw]
Cache_unset(store, key, args, keys) ==
    UnsetFormatted(store, formatKey(key), formatKey(args), keys)

\* Object.keys(obj): the names of obj in one order
Object_keys(obj) == CHOOSE q \in Orders(DOMAIN obj) : TRUE

\* lines 733-735 for the record rec of an input at (key, args):
\* data[key][args].set is read whether or not data[key] has args, and
\* reading .set of undefined throws a TypeError.  [store, threw]
MergeRecord(merged, key, args, rec) ==
    IF merged.threw THEN merged
    ELSE IF args \notin DOMAIN merged.store[key]
    THEN [store |-> merged.store, threw |-> TRUE]
    ELSE IF rec.set > merged.store[key][args].set
    THEN [store |-> [merged.store EXCEPT ![key][args] = rec], threw |-> FALSE]
    ELSE merged

\* the loop of lines 723-736 over the names of cache_data[key]
RECURSIVE MergeArgs(_, _, _, _)
MergeArgs(merged, key, names, sub) ==
    IF names = <<>> THEN merged
    ELSE MergeArgs(MergeRecord(merged, key, Head(names), sub[Head(names)]),
                   key, Tail(names), sub)

\* lines 719-721: data[key] = {} when data has no key
MergeKey(merged, key) ==
    IF merged.threw \/ key \in DOMAIN merged.store THEN merged
    ELSE [store |-> PutProperty(merged.store, Str(key), EmptyObject), threw |-> FALSE]

\* the loop of lines 718-737 over the keys of one input
RECURSIVE MergeKeys(_, _, _)
MergeKeys(merged, keys, cache_data) ==
    IF keys = <<>> THEN merged
    ELSE MergeKeys(MergeArgs(MergeKey(merged, Head(keys)), Head(keys),
                             Object_keys(cache_data[Head(keys)]),
                             cache_data[Head(keys)]),
                   Tail(keys), cache_data)

\* the loop of lines 715-738 over the inputs
RECURSIVE MergeCaches(_, _)
MergeCaches(merged, caches) ==
    IF caches = <<>> THEN merged
    ELSE MergeCaches(MergeKeys(merged, Object_keys(Head(caches)), Head(caches)),
                     Tail(caches))

\* Cache.fromMerge(caches, options), caches an array of stores: [store, threw]
Cache_fromMerge(caches) ==
    MergeCaches([store |-> EmptyObject, threw |-> FALSE], caches)

(***************************************************************************)
(* Serialization (src/unnamed/part_001, lines 744-832).                    *)
(* toJSON is JSON.stringify(this.data, null, 4).  The text is the sequence *)
(* of its tokens: one per character of a string, one per number or         *)
(* literal, one per punctuation mark; the white space of the indentation,  *)
(* which JSON.parse skips, is left out.  A Stat has no toJSON method, so   *)
(* the text holds its own property, values; toCompact has no caller.       *)
(***************************************************************************)
\* the property names of a record and of a Stat
N_data == <<"d", "a", "t", "a">>
N_set == <<"s", "e", "t">>
N_changed == <<"c", "h", "a", "n", "g", "e", "d">>
N_used == <<"u", "s", "e", "d">>
N_age_max == <<"a", "g", "e", "_", "m", "a", "x">>
N_values == <<"v", "a", "l", "u", "e", "s">>

\* a sample of a Stat as a number (the time gaps a store holds are whole)
NumOf(q) == IF q[2] = 1 THEN Num(q[1]) ELSE Num(q)

\* a Stat, or the plain object loaded in its place, as JSON.stringify sees it
StatValue(s) ==
    Obj(<< <<N_values, Arr([i \in DOMAIN s.values |-> NumOf(s.values[i])])>> >>)

\* a record as JSON.stringify sees it
RecordValue(rec) ==
    Obj(<< <<N_data, rec.data>>, <<N_set, Num(rec.set)>>,
           <<N_changed, StatValue(rec.changed)>>, <<N_used, StatValue(rec.used)>> >>
        \o (IF rec.age_max = <<>> THEN <<>>
            ELSE << <<N_age_max, Num(rec.age_max[1])>> >>))

\* a sub-map as JSON.stringify sees it, its properties in the order names
SubValue(sub, names) ==
    Obj([i \in DOMAIN names |-> <<names[i], RecordValue(sub[names[i]])>>])

\* this.data as JSON.stringify sees it
StoreValue(store, names) ==
    Obj([i \in DOMAIN names |->
            <<names[i], SubValue(store[names[i]], Object_keys(store[names[i]]))>>])

\* Cache.toJSON(), lines 747-749
Cache_toJSON(store) == JSON_stringify(StoreValue(store, Object_keys(store)))

\* the numbers a text of the model holds
JSONNumbers == 0..MaxTime

NumberTokens == {ToString(n) : n \in JSONNumbers}

ParseNumber(token) == CHOOSE n \in JSONNumbers : ToString(n) = token

\* the character an escape stands for
Unescape(c) == IF c = "n" THEN "\n" ELSE c

\* the text is no JSON text: JSON.parse throws a SyntaxError
ParseFail == [v |-> Undefined, rest |-> <<>>, ok |-> FALSE]

\* the characters of a string up to its closing quote: [v, rest, ok]
RECURSIVE ParseChars(_, _)
ParseChars(s, acc) ==
    IF s = <<>> THEN ParseFail
    ELSE IF Head(s) = "\"" THEN [v |-> acc, rest |-> Tail(s), ok |-> TRUE]
    ELSE IF Head(s) = "\\"
    THEN IF Len(s) < 2 THEN ParseFail
         ELSE ParseChars(Tail(Tail(s)), Append(acc, Unescape(s[2])))
    ELSE ParseChars(Tail(s), Append(acc, Head(s)))

\* JSON.parse of the value the text s starts with: [v, rest, ok]
RECURSIVE ParseValue(_)
RECURSIVE ParseItemsMore(_, _)
RECURSIVE ParsePropsMore(_, _)
ParseString(r) ==
    IF r.ok THEN [v |-> Str(r.v), rest |-> r.rest, ok |-> TRUE] ELSE ParseFail

\* an item was read: a comma and the next item, or the closing bracket
ParseItem(r, acc) ==
    IF r.ok THEN ParseItemsMore(r.rest, Append(acc, r.v)) ELSE ParseFail

ParseItemsMore(s, acc) ==
    IF s = <<>> THEN ParseFail
    ELSE IF Head(s) = "]" THEN [v |-> Arr(acc), rest |-> Tail(s), ok |-> TRUE]
    ELSE IF Head(s) = "," THEN ParseItem(ParseValue(Tail(s)), acc)
    ELSE ParseFail

\* the items of an array, after its opening bracket
ParseItems(s) ==
    IF s = <<>> THEN ParseFail
    ELSE IF Head(s) = "]" THEN [v |-> Arr(<<>>), rest |-> Tail(s), ok |-> TRUE]
    ELSE ParseItem(ParseValue(s), <<>>)

\* a property was read: a comma and the next property, or the closing brace
ParsePropValue(name, r, acc) ==
    IF r.ok THEN ParsePropsMore(r.rest, Append(acc, <<name, r.v>>)) ELSE ParseFail

\* after the name comes the colon, then the value
ParsePropName(r, acc) ==
    IF r.ok /\ r.rest # <<>> /\ Head(r.rest) = ":"
    THEN ParsePropValue(r.v, ParseValue(Tail(r.rest)), acc)
    ELSE ParseFail

\* a property starts with the quote of its name
ParseProp(s, acc) ==
    IF s # <<>> /\ Head(s) = "\"" THEN ParsePropName(ParseChars(Tail(s), <<>>), acc)
    ELSE ParseFail

ParsePropsMore(s, acc) ==
    IF s = <<>> THEN ParseFail
    ELSE IF Head(s) = "}" THEN [v |-> Obj(acc), rest |-> Tail(s), ok |-> TRUE]
    ELSE IF Head(s) = "," THEN ParseProp(Tail(s), acc)
    ELSE ParseFail

\* the properties of an object, after its opening brace
ParseProps(s) ==
    IF s = <<>> THEN ParseFail
    ELSE IF Head(s) = "}" THEN [v |-> Obj(<<>>), rest |-> Tail(s), ok |-> TRUE]
    ELSE ParseProp(s, <<>>)

ParseValue(s) ==
    IF s = <<>> THEN ParseFail
    ELSE CASE Head(s) = "null" -> [v |-> Null, rest |-> Tail(s), ok |-> TRUE]
           [] Head(s) = "true" -> [v |-> Bool(TRUE), rest |-> Tail(s), ok |-> TRUE]
           [] Head(s) = "false" -> [v |-> Bool(FALSE), rest |-> Tail(s), ok |-> TRUE]
           [] Head(s) = "\"" -> ParseString(ParseChars(Tail(s), <<>>))
           [] Head(s) = "[" -> ParseItems(Tail(s))
           [] Head(s) = "{" -> ParseProps(Tail(s))
           [] Head(s) \in NumberTokens ->
                [v |-> Num(ParseNumber(Head(s))), rest |-> Tail(s), ok |-> TRUE]
           [] OTHER -> ParseFail

\* the whole text is one value, or JSON.parse throws
ParsedWhole(r) ==
    IF r.ok /\ r.rest = <<>> THEN [threw |-> FALSE, v |-> r.v]
    ELSE [threw |-> TRUE, v |-> Undefined]

\* JSON.parse(text): [threw, v]
JSON_parse(text) == ParsedWhole(ParseValue(text.v))

\* the names of the properties of an object, and obj[name]
PropNames(x) == {x.v[i][1] : i \in DOMAIN x.v}
PropValue(x, name) == x.v[CHOOSE i \in DOMAIN x.v : x.v[i][1] = name][2]

\* a parsed Stat is a plain object, no instance of the class
StatOf(x) ==
    [form |-> "plain",
     values |-> IF N_values \in PropNames(x)
                THEN [i \in DOMAIN PropValue(x, N_values).v |->
                         Q(PropValue(x, N_values).v[i].v)]
                ELSE <<>>]

\* a parsed record: a property the text leaves out reads as undefined
RecordOf(x) ==
    [data |-> IF N_data \in PropNames(x) THEN PropValue(x, N_data) ELSE Undefined,
     set |-> PropValue(x, N_set).v,
     changed |-> StatOf(PropValue(x, N_changed)),
     used |-> StatOf(PropValue(x, N_used)),
     age_max |-> IF N_age_max \in PropNames(x)
                 THEN <<PropValue(x, N_age_max).v>> ELSE <<>>]

SubOf(x) == [a \in PropNames(x) |-> RecordOf(PropValue(x, a))]

\* the parsed document as this.data
StoreOf(x) == [k \in PropNames(x) |-> SubOf(PropValue(x, k))]

\* the constructor, lines 665-673, on its data argument: a falsy value is
\* replaced by {}, a value that is no object (or an array) throws, an object
\* is taken as it is
Cache_constructor(value) ==
    IF ~Truthy(value) THEN [threw |-> FALSE, store |-> EmptyObject]
    ELSE IF value.t # "obj" THEN [threw |-> TRUE, store |-> EmptyObject]
    ELSE [threw |-> FALSE, store |-> StoreOf(value)]

\* what fromJSON does with the result p of JSON.parse: the SyntaxError
\* reaches the caller, or the constructor runs on the value
FromParsed(p) ==
    IF p.threw THEN [threw |-> TRUE, store |-> EmptyObject]
    ELSE Cache_constructor(p.v)

\* Cache.fromJSON(data, options), lines 772-774: new Cache(options,
\* JSON.parse(data)): [threw, store]
Cache_fromJSON(text) == FromParsed(JSON_parse(text))

\* deflate and inflate of src/src/modules/zlib.ts: zlib's pair, a buffer that
\* inflates to the text it was deflated from
deflate(text) == [t |-> "deflated", v |-> text.v]
inflate(buffer) == [t |-> "buffer", v |-> buffer.v]
Buffer_toString(buffer) == Str(buffer.v)

\* Cache.toPack(), lines 797-799
Cache_toPack(store) == deflate(Cache_toJSON(store))

\* Cache.fromPack(data, options), lines 825-829
Cache_fromPack(buffer) == Cache_fromJSON(Buffer_toString(inflate(buffer)))

(***************************************************************************)
(* The inputs the calls are made with.                                     *)
(***************************************************************************)
\* DEFAULT_OPTIONS.age_max
DefaultAgeMax == 600000

\* a plain string key, and the same key as formatKey stores it
KeyK == Str(<<"k">>)
KeyKFormatted == Str(Quote(<<"k">>))
\* a callable; its key is the first line of its source text, trimmed
FuncF == Fn(<<"f", "{", " ", "\n", "1", "}">>)

KeyInputs == {KeyK, FuncF}
LookupInputs == {KeyK, KeyKFormatted, FuncF}
\* the func of use and useSync: a callable, or a string used as a lookup key
UseInputs == {FuncF, KeyKFormatted}
ArgInputs == {Arr(<<>>), Arr(<<Num(1)>>)}

\* two objects that differ only in the order of their properties
ObjAB == Obj(<< <<<<"a">>, Num(1)>>, <<<<"b">>, Num(2)>> >>)
ObjBA == Obj(<< <<<<"b">>, Num(2)>>, <<<<"a">>, Num(1)>> >>)

Payloads == {Undefined, Null, Num(0), Num(1), ObjAB, ObjBA}
FuncResults == {Undefined, Num(0), Num(1)}

\* use_cache: a boolean, or a predicate and what it answers for the cached value
UseCacheInputs ==
    {Bool(FALSE), Bool(TRUE), [t |-> "pred", v |-> FALSE], [t |-> "pred", v |-> TRUE]}

\* what func(...args) does when useSync calls it
SyncOutcomes ==
    {[kind |-> "throw", v |-> Undefined]} \cup {[kind |-> "return", v |-> r] : r \in FuncResults}

\* what func(...args, callback) does when promisify(func) calls it: it throws,
\* it returns r without ever calling the callback, or it goes on running
\* (it has returned a promise, or will call the callback)
AsyncBehaviours ==
    {[kind |-> "throw", v |-> Undefined], [kind |-> "async", v |-> Undefined]}
    \cup {[kind |-> "return", v |-> r] : r \in FuncResults}

\* how a running func completes: its promise resolves with r or rejects, or
\* it calls callback(null, r) or callback(error)
Settlements ==
    {[how |-> "rejectedP", v |-> Undefined], [how |-> "cbErr", v |-> Undefined]}
    \cup {[how |-> h, v |-> r] : h \in {"resolvedP", "cb"}, r \in FuncResults}

\* the constructor's options argument: <<>> for none, <<n>> for {age_max: n}
OptionInputs == {<<1>>}

\* Cache.setOptions, on a new store
setOptions(given) == [age_max |-> IF given = <<>> THEN DefaultAgeMax ELSE given[1]]

\* the constructor's data argument: nothing, or one record (written at time 0)
\* under FuncF and no arguments, without an age_max or with one
LoadedStore(age) ==
    PutProperty(EmptyObject, formatKey(FuncF),
                PutProperty(EmptyObject, formatKey(Arr(<<>>)),
                            [NewRecord(Num(1), 0) EXCEPT !.age_max = age]))

DataInputs == {EmptyObject} \cup {LoadedStore(age) : age \in {<<>>, <<0>>, <<2>>}}

\* the stores fromMerge is given: the empty store, a key with an empty
\* sub-map, and one record under one of two keys, written at 0 or at 1
MergeStore(key, d, t) ==
    PutProperty(EmptyObject, formatKey(key),
                PutProperty(EmptyObject, formatKey(Arr(<<>>)), NewRecord(d, t)))

MergeStores ==
    {EmptyObject, PutProperty(EmptyObject, formatKey(FuncF), EmptyObject)}
    \cup {MergeStore(key, d, t) : key \in KeyInputs, d \in {Num(0), Num(1)}, t \in 0..1}

\* the arrays of stores fromMerge is given
MergeInputs == UNION {[1..n -> MergeStores] : n \in 0..MaxCaches}

\* the samples of the Stats toCompact is applied to: whole numbers and one
\* that Stat.round changes
StatSamples == {Q(0), <<1, 3>>, Q(1), Q(3)}

StatInputs == {Stat_new(v) : v \in UNION {[1..n -> StatSamples] : n \in 0..MaxSamples}}

\* the payloads of the stores that are saved and loaded
JSONPayloads == {Null, NaN, Num(1), ObjAB}

\* the samples a Stat of a record written at 1 holds at 1: none, the 0 of a
\* first changing set or get, and the 1 of one that followed a 0 a tick ago
StatHistories == {<<>>, <<Q(0)>>, <<Q(0), Q(1)>>}

\* a store of one record, written at 1, under the name of key and no arguments
JSONStore(key, d, c, u, age) ==
    PutProperty(EmptyObject, formatKey(key),
                PutProperty(EmptyObject, formatKey(Arr(<<>>)),
                            [data |-> d, set |-> 1, changed |-> Stat_new(c),
                             used |-> Stat_new(u), age_max |-> age]))

\* the stores that are saved and loaded: the empty store, a key with an
\* empty sub-map, and the stores of one record
JSONStores ==
    {EmptyObject, PutProperty(EmptyObject, formatKey(KeyK), EmptyObject)}
    \cup {JSONStore(key, d, c, u, age) :
              key \in KeyInputs, d \in JSONPayloads, c \in StatHistories,
              u \in StatHistories, age \in {<<>>, <<2>>}}

\* the texts fromJSON is given: no JSON text (empty, cut short, a bare word),
\* texts of values that are no object, and texts of stores
JSONTexts ==
    {Str(<<>>), Str(<<"{">>), Str(<<"x">>), Str(<<"{", "\"", "a", "\"", "}">>),
     Str(<<"[", "]">>), Str(<<"[", "1", "]">>), Str(<<"0">>), Str(<<"1">>),
     Str(<<"\"", "\"">>), Str(<<"\"", "a", "\"">>), Str(<<"null">>),
     Str(<<"true">>), Str(<<"{", "}">>),
     Cache_toJSON(LoadedStore(<<>>)), Cache_toJSON(LoadedStore(<<2>>))}

\* a compact record as the persisted layout holds it: JSON has no Infinity,
\* JSON.stringify writes null for it, and fromCompact's comparisons and
\* subtraction take null as 0
Persisted(c) ==
    [c EXCEPT !.max = IF @[2] = 0 THEN Q(0) ELSE @,
              !.min = IF @[2] = 0 THEN Q(0) ELSE @]

\* what a record's changed and used are in a loaded store: the compact
\* records of Stats of 0 to 3 samples, and a full Stat
CompactInputs ==
    {Persisted(Stat_toCompact(Stat_new(h))) :
        h \in StatHistories \cup {<<Q(0), Q(1), Q(0)>>}}
    \cup {Stat_new(<<Q(0), Q(1)>>)}

\* a store loaded from the persisted layout: one record, written at 1
CompactStores ==
    {PutProperty(EmptyObject, formatKey(FuncF),
                 PutProperty(EmptyObject, formatKey(Arr(<<>>)),
                             [data |-> Num(1), set |-> 1, changed |-> c, used |-> u,
                              age_max |-> <<>>])) :
        c \in CompactInputs, u \in CompactInputs}

\* keys, arguments and payloads that JSON.stringify cannot encode, next to
\* some that it can
CyclicKeyInputs == {FuncF, KeyK, Cyclic}
CyclicArgInputs == {Arr(<<>>), Arr(<<Cyclic>>)}
CyclicPayloads == {Num(0), Num(1), Cyclic}

NoCall ==
    [op |-> "new", key |-> Undefined, args |-> Undefined, data |-> Undefined,
     uc |-> Bool(FALSE), ret |-> Undefined, threw |-> FALSE, invoked |-> 0,
     fthrew |-> FALSE, pending |-> FALSE, at |-> 0]

Init ==
    /\ data \in DataInputs
    /\ options \in {setOptions(o) : o \in OptionInputs}
    /\ now = 0
    /\ calls = <<>>
    /\ steps = 0
    /\ last = NoCall
    /\ pre = data

\* the clock advances
Tick ==
    /\ now < MaxTime
    /\ now' = now + 1
    /\ UNCHANGED <<data, options, calls, steps, last, pre>>

\* what every call records
Called(op, key, args, d, uc, store, ret, threw, invoked, fthrew, pending) ==
    /\ pre' = data
    /\ data' = store
    /\ last' = [op |-> op, key |-> key, args |-> args, data |-> d, uc |-> uc,
                ret |-> ret, threw |-> threw, invoked |-> invoked,
                fthrew |-> fthrew, pending |-> pending, at |-> now]
    /\ UNCHANGED <<options, now>>

\* a call that ran to its end with the result r
Returned(op, key, args, d, uc, r, invoked, fthrew) ==
    Called(op, key, args, d, uc, r.store, r.ret, r.threw, invoked, fthrew, FALSE)

Set(key, d, args) ==
    /\ steps < MaxSteps
    /\ steps' = steps + 1
    /\ Returned("set", key, args, d, Bool(FALSE), Cache_set(data, key, d, args, now),
                0, FALSE)
    /\ UNCHANGED calls

Inspect(key, args) ==
    /\ steps < MaxSteps
    /\ steps' = steps + 1
    /\ Called("inspect", key, args, Undefined, Bool(FALSE), data,
              UseInspectAt(data, Cache_inspect(data, key, args)), FALSE, 0, FALSE, FALSE)
    /\ UNCHANGED calls

Get(key, args) ==
    /\ steps < MaxSteps
    /\ steps' = steps + 1
    /\ Returned("get", key, args, Undefined, Bool(FALSE),
                Cache_get(data, key, args, now, options), 0, FALSE)
    /\ UNCHANGED calls

\* useSync returned r
UseSyncReturned(func, args, uc, outcome, r) ==
    Returned("useSync", func, args, outcome.v, uc, r, r.invoked,
             r.invoked = 1 /\ outcome.kind = "throw")

UseSync(func, args, uc, outcome) ==
    /\ steps < MaxSteps
    /\ steps' = steps + 1
    /\ UseSyncReturned(func, args, uc, outcome,
                       Cache_useSync(data, func, args, uc, outcome, now, options))
    /\ UNCHANGED calls

\* an async use of (func, args) is waiting for its func: it has invoked func
\* and its result is not stored yet
InFlight(func, args) ==
    \E i \in DOMAIN calls :
        calls[i].pc = "awaiting" /\ calls[i].func = func /\ calls[i].args = args

\* a use that ends without invoking func also when a call on the same
\* (func, args) is waiting
UseEndsInFlight(func, args, c) ==
    c.threw \/ c.hit \/ func.t # "fn" \/ InFlight(func, args)

\* lines 983-988: use ends without invoking func when the cache check threw
\* or gave a usable value, or func is no callable
UseEnds(func, args, c) == c.threw \/ c.hit \/ func.t # "fn"

\* use after its cache check c: the call ends (the check threw, a hit, or func
\* is no callable), or promisify(func)(...args) invokes func and the call
\* waits for the callback
UseStarted(func, args, uc, beh, c) ==
    IF UseEnds(func, args, c)
    THEN /\ Called("use", func, args, Undefined, uc, c.store,
                   IF c.threw THEN Undefined
                   ELSE IF c.hit THEN c.ret
                   ELSE Cache_useInspect(c.store, func, args),
                   c.threw, 0, FALSE, FALSE)
         /\ UNCHANGED calls
    ELSE /\ Len(calls) < MaxCalls
         /\ Called("use", func, args, Undefined, uc, c.store, Undefined,
                   FALSE, 1, beh.kind = "throw", TRUE)
         /\ calls' = Append(calls,
                [func |-> func, args |-> args, pc |-> "awaiting",
                 fn |-> CASE beh.kind = "throw" -> "threw"
                          [] beh.kind = "return" -> "returned"
                          [] OTHER -> "running",
                 v |-> beh.v, ret |-> Undefined])

\* Cache.use up to its await, lines 978-989
UseStart(func, args, uc, beh) ==
    /\ steps < MaxSteps
    /\ steps' = steps + 1
    /\ UseStarted(func, args, uc, beh,
                  Cache_useCheck(data, func, args, uc, now, options))

\* a running func completes
FuncSettle(i, s) ==
    /\ calls[i].fn = "running"
    /\ calls' = [calls EXCEPT ![i].fn = s.how, ![i].v = s.v]
    /\ UNCHANGED <<data, options, now, steps, last, pre>>

\* the promise of promisify(func) settles only when func threw or called the
\* callback
CanResume(c) == c.pc = "awaiting" /\ c.fn \in {"threw", "cb", "cbErr"}

\* the call c ends with w
UseResumed(i, c, w) ==
    /\ Called("useResume", c.func, c.args, c.v, Bool(FALSE), w.store, w.ret,
              w.threw, 0, c.fn # "cb", FALSE)
    /\ calls' = [calls EXCEPT ![i].pc = IF w.threw THEN "rejected" ELSE "resolved",
                              ![i].ret = w.ret]

\* Cache.use after its await, line 989: this.set(func, <the value>, args), or
\* the rejection reaches the caller
UseResume(i) ==
    /\ CanResume(calls[i])
    /\ UseResumed(i, calls[i],
                  IF calls[i].fn = "cb"
                  THEN Cache_set(data, calls[i].func, calls[i].v, calls[i].args, now)
                  ELSE [store |-> data, ret |-> Undefined, threw |-> TRUE])
    /\ UNCHANGED steps

\* clean and unset return the instance: no value of the store
NoValue(r) == [store |-> r.store, ret |-> Undefined, threw |-> r.threw]

Clean ==
    /\ steps < MaxSteps
    /\ steps' = steps + 1
    /\ \E keys \in Orders(DOMAIN data), names \in ArgOrders(data) :
          Returned("clean", Undefined, Undefined, Undefined, Bool(FALSE),
                   NoValue(Cache_clean(data, keys, names, now, options)),
                   0, FALSE)
    /\ UNCHANGED calls

Unset(key, args) ==
    /\ steps < MaxSteps
    /\ steps' = steps + 1
    /\ \E keys \in Orders(DOMAIN data) :
          Returned("unset", key, args, Undefined, Bool(FALSE),
                   NoValue(Cache_unset(data, key, args, keys)),
                   0, FALSE)
    /\ UNCHANGED calls

\* Cache.fromMerge(caches, options): the store of the new Cache, or the error
FromMerge(caches) ==
    /\ steps < MaxSteps
    /\ steps' = steps + 1
    /\ Returned("fromMerge", Undefined, Undefined, [t |-> "caches", v |-> caches],
                Bool(FALSE),
                IF Cache_fromMerge(caches).threw
                THEN [store |-> data, ret |-> Undefined, threw |-> TRUE]
                ELSE [store |-> Cache_fromMerge(caches).store, ret |-> Undefined,
                      threw |-> FALSE],
                0, FALSE)
    /\ UNCHANGED calls

Next ==
    \/ Tick
    \/ \E key \in KeyInputs, d \in Payloads, args \in ArgInputs : Set(key, d, args)
    \/ \E key \in LookupInputs, args \in ArgInputs : Inspect(key, args)
    \/ \E key \in LookupInputs, args \in ArgInputs : Get(key, args)
    \/ \E func \in UseInputs, args \in ArgInputs, uc \in UseCacheInputs,
          outcome \in SyncOutcomes : UseSync(func, args, uc, outcome)
    \/ \E func \in UseInputs, args \in ArgInputs, uc \in UseCacheInputs,
          beh \in AsyncBehaviours : UseStart(func, args, uc, beh)
    \/ \E i \in DOMAIN calls, s \in Settlements : FuncSettle(i, s)
    \/ \E i \in DOMAIN calls : UseResume(i)
    \/ Clean
    \/ \E key \in KeyInputs \cup {Undefined}, args \in ArgInputs \cup {Undefined} :
          Unset(key, args)

Spec == Init /\ [][Next]_vars

\* s.toCompact() for a Stat s: the call records its receiver and the compact
\* record it returned
ToCompact(s) ==
    /\ Called("toCompact", Undefined, Undefined, [t |-> "stat", v |-> s],
              Bool(FALSE), data, [t |-> "compact", v |-> Stat_toCompact(s)],
              FALSE, 0, FALSE, FALSE)
    /\ UNCHANGED <<calls, steps>>

\* Stat.fromCompact(c) for the compact record c that toCompact returned; key
\* keeps the Stat that c was made of
FromCompact ==
    /\ last.op = "toCompact" /\ last.args = Undefined
    /\ Called("fromCompact", last.data, Undefined, last.ret, Bool(FALSE), data,
              [t |-> "stat", v |-> Stat_fromCompact(last.ret.v).stat],
              Stat_fromCompact(last.ret.v).threw, 0, FALSE, FALSE)
    /\ UNCHANGED <<calls, steps>>

\* toCompact() of the Stat that fromCompact returned; key keeps the Stat s
\* the chain started from and args the compact record s.toCompact()
ToCompactAgain ==
    /\ last.op = "fromCompact" /\ ~last.threw
    /\ Called("toCompact", last.key, last.data, last.ret, Bool(FALSE), data,
              [t |-> "compact", v |-> Stat_toCompact(last.ret.v)],
              FALSE, 0, FALSE, FALSE)
    /\ UNCHANGED <<calls, steps>>

\* the Stat class alone: toCompact, fromCompact of the result, toCompact again
NextStat ==
    \/ \E s \in StatInputs : ToCompact(s)
    \/ FromCompact
    \/ ToCompactAgain

SpecStat == Init /\ [][NextStat]_vars

\* a store at time 1, holding what earlier calls left
InitJSON ==
    /\ data \in JSONStores
    /\ options \in {setOptions(o) : o \in OptionInputs}
    /\ now = 1
    /\ calls = <<>>
    /\ steps = 0
    /\ last = NoCall
    /\ pre = data

\* Cache.fromJSON(cache.toJSON(), options): the store is saved as text and a
\* new Cache is loaded from the text, with the options the store had
FromJSON ==
    /\ steps < MaxSteps
    /\ steps' = steps + 1
    /\ Called("fromJSON", Undefined, Undefined, Cache_toJSON(data), Bool(FALSE),
              Cache_fromJSON(Cache_toJSON(data)).store, Undefined, FALSE, 0, FALSE, FALSE)
    /\ UNCHANGED calls

\* Cache.fromPack(await cache.toPack(), options)
FromPack ==
    /\ steps < MaxSteps
    /\ steps' = steps + 1
    /\ Called("fromPack", Undefined, Undefined, Cache_toPack(data), Bool(FALSE),
              Cache_fromPack(Cache_toPack(data)).store, Undefined, FALSE, 0, FALSE, FALSE)
    /\ UNCHANGED calls

\* a store that is saved, loaded and used
NextJSON ==
    \/ Tick
    \/ FromJSON
    \/ FromPack
    \/ \E key \in KeyInputs, d \in JSONPayloads, args \in ArgInputs : Set(key, d, args)
    \/ \E key \in LookupInputs, args \in ArgInputs : Get(key, args)

SpecJSON == InitJSON /\ [][NextJSON]_vars

\* Cache.fromJSON(text, options) on a text from anywhere: the new store, or
\* the error
FromJSONText(text) ==
    /\ steps < MaxSteps
    /\ steps' = steps + 1
    /\ Called("fromJSON", Undefined, Undefined, text, Bool(FALSE),
              IF Cache_fromJSON(text).threw THEN data ELSE Cache_fromJSON(text).store,
              Undefined, Cache_fromJSON(text).threw, 0, FALSE, FALSE)
    /\ UNCHANGED calls

\* stores constructed from text
NextParse == \E text \in JSONTexts : FromJSONText(text)

SpecParse == Init /\ [][NextParse]_vars

\* a store loaded from the persisted layout, at time 1
InitCompact ==
    /\ data \in CompactStores
    /\ options \in {setOptions(o) : o \in OptionInputs}
    /\ now = 1
    /\ calls = <<>>
    /\ steps = 0
    /\ last = NoCall
    /\ pre = data

\* a loaded store that is read and written
NextCompact ==
    \/ Tick
    \/ \E d \in {Num(0), Num(1)}, args \in ArgInputs : Set(FuncF, d, args)
    \/ \E args \in ArgInputs : Get(FuncF, args)

SpecCompact == InitCompact /\ [][NextCompact]_vars

\* set calls, some of them with what JSON.stringify throws on
NextCyclic ==
    \/ Tick
    \/ \E key \in CyclicKeyInputs, d \in CyclicPayloads, args \in CyclicArgInputs :
          Set(key, d, args)

SpecCyclic == Init /\ [][NextCyclic]_vars

\* a store that is saved, loaded and swept
NextSweep ==
    \/ Tick
    \/ FromJSON
    \/ Clean

SpecSweep == InitJSON /\ [][NextSweep]_vars

\* the static constructors: fromMerge on every array of stores
NextMerge == \E caches \in MergeInputs : FromMerge(caches)

SpecMerge == Init /\ [][NextMerge]_vars

(***************************************************************************)
(* What the claims are stated with.                                        *)
(***************************************************************************)
\* the (key, args) pairs that hold a record
Slots(store) == UNION {{<<k, a>> : a \in DOMAIN store[k]} : k \in DOMAIN store}

\* the names set() files a record under
SetKey(key) == ToPropertyKey(formatKey(key))

HasRecord(store, key, args) ==
    SetKey(key) \in DOMAIN store /\ SetKey(args) \in DOMAIN store[SetKey(key)]

RecordAt(store, key, args) == store[SetKey(key)][SetKey(args)]

\* fresh as the specification defines it: now - set <= (age_max ?? options.age_max)
SpecFresh(rec, t) ==
    t - rec.set <= (IF rec.age_max # <<>> THEN rec.age_max[1] ELSE options.age_max)

\* structural equality: the properties of an object compared by name,
\* whatever their order
DeepEqual(x, y) ==
    IF x.t = "obj" /\ y.t = "obj"
    THEN /\ PropNames(x) = PropNames(y)
         /\ \A name \in PropNames(x) : PropValue(x, name) = PropValue(y, name)
    ELSE x = y

\* the last call was get or inspect or use..., and asked for a record that
\* inspect finds in the store the call started from
Asked == Cache_inspect(pre, last.key, last.args)
AskedRecord == pre[Asked.k][Asked.a]

(***************************************************************************)
(* C1: after set(key, data, args) with data not undefined, a get(key,      *)
(* args) with the same key and args, issued while the record written is    *)
(* fresh, returns data, for a plain string key as for a callable.          *)
(* The code does not do this: inspect takes a string key as it is          *)
(* (line 935), set files the record under JSON.stringify(key) (line 895).  *)
(***************************************************************************)
C1_GetAfterSetReturnsData ==
    [][ ( /\ last.op = "set" /\ last.data # Undefined /\ ~last.threw
          /\ last'.op = "get" /\ steps' = steps + 1
          /\ last'.key = last.key /\ last'.args = last.args
          /\ SpecFresh(RecordAt(data, last.key, last.args), now) )
        => last'.ret = last.data ]_vars

(***************************************************************************)
(* C2: for a record without an age_max of its own, get returns "not found" *)
(* when now - record.set > options.age_max and record.data when            *)
(* now - record.set <= options.age_max, the boundary included.             *)
(***************************************************************************)
C2_GetFreshness ==
    (last.op = "get" /\ Asked.found /\ AskedRecord.age_max = <<>>)
    => /\ ~last.threw
       /\ last.at - AskedRecord.set <= options.age_max => last.ret = AskedRecord.data
       /\ last.at - AskedRecord.set > options.age_max => last.ret = Undefined

\* a get at the boundary, now - record.set = options.age_max, returned the data
C2_Witness ==
    /\ last.op = "get" /\ Asked.found /\ AskedRecord.age_max = <<>>
    /\ last.at - AskedRecord.set = options.age_max
    /\ last.ret = AskedRecord.data /\ last.ret # Undefined

(***************************************************************************)
(* C3: when a record carries its own age_max, whatever its value, 0        *)
(* included, get tests now - record.set <= record.age_max.                 *)
(* The code does not do this for age_max = 0: line 958 reads               *)
(* cache.age_max || this.options.age_max.                                  *)
(***************************************************************************)
C3_RecordAgeMaxDecides ==
    (last.op = "get" /\ Asked.found /\ AskedRecord.age_max # <<>>)
    => (last.ret # Undefined <=> last.at - AskedRecord.set <= AskedRecord.age_max[1])

(***************************************************************************)
(* C4: a set(key, data, args) with data not undefined on an existing       *)
(* record leaves the record's changed Stat as it was when data deep-equals *)
(* the stored payload, and in every case makes record.data data and        *)
(* record.set now, so that the record is fresh.                            *)
(* The code compares the JSON texts (line 912): two objects that differ    *)
(* in the order of their properties count as a change.                     *)
(***************************************************************************)
C4_SetOnExistingRecord ==
    (last.op = "set" /\ last.data # Undefined /\ HasRecord(pre, last.key, last.args))
    => LET before == RecordAt(pre, last.key, last.args)
           after == RecordAt(data, last.key, last.args)
       IN  /\ DeepEqual(last.data, before.data) => after.changed = before.changed
           /\ after.data = last.data
           /\ after.set = last.at
           /\ SpecFresh(after, last.at)

(***************************************************************************)
(* C5: set(key, undefined, args) is a no-op in every store state: no       *)
(* sub-map and no record is created, no record is changed, and the call    *)
(* returns undefined.                                                      *)
(***************************************************************************)
C5_SetUndefinedIsNoOp ==
    (last.op = "set" /\ last.data = Undefined)
    => (data = pre /\ last.ret = Undefined /\ ~last.threw)

\* set(key, undefined, args) was called on a store with records and for a
\* key that has no sub-map
C5_Witness ==
    /\ last.op = "set" /\ last.data = Undefined
    /\ SetKey(last.key) \notin DOMAIN data
    /\ Slots(data) # {}

(***************************************************************************)
(* C6: after clean(), the records that remain are exactly the records for  *)
(* which get would have returned a value just before the call, and no key  *)
(* is left with an empty sub-map.                                          *)
(***************************************************************************)
C6_CleanKeepsExactlyTheFresh ==
    (last.op = "clean")
    => /\ ~last.threw
       /\ Slots(data) =
              {s \in Slots(pre) :
                  Cache_get(pre, Str(s[1]), Str(s[2]), last.at, options).ret # Undefined}
       /\ \A k \in DOMAIN data : DOMAIN data[k] # {}

\* a clean removed a stale record and a whole key, and kept a fresh record
C6_Witness ==
    /\ last.op = "clean"
    /\ Slots(data) # {}
    /\ Slots(pre) \ Slots(data) # {}
    /\ DOMAIN pre \ DOMAIN data # {}

(***************************************************************************)
(* C7: get, inspect and use/useSync never remove a record: a record that   *)
(* was in the store before the call is still returned by inspect after     *)
(* it, stale or not; a record disappears only through clean or unset.      *)
(***************************************************************************)
C7_OnlyCleanAndUnsetRemove ==
    /\ Slots(pre) \ Slots(data) # {} => last.op \in {"clean", "unset"}
    /\ last.op \in {"get", "inspect", "use", "useSync", "useResume"}
       => \A s \in Slots(pre) : Cache_inspect(data, Str(s[1]), Str(s[2])).found

\* a get found the record stale, returned "not found", and the record is
\* still in the store
C7_Witness ==
    /\ last.op = "get" /\ Asked.found
    /\ ~SpecFresh(AskedRecord, last.at)
    /\ last.ret = Undefined
    /\ Cache_inspect(data, last.key, last.args).found

(***************************************************************************)
(* C8: use and useSync with a truthy useCache: when a fresh record exists  *)
(* at (func, args), whatever its stored value, and useCache is no          *)
(* predicate or a predicate that answers false, the stored value is        *)
(* returned and func is not invoked.                                       *)
(* The code does not do this for a stored 0, false, "" or null: lines 983  *)
(* and 1011 test the value itself (cache && ...).                          *)
(***************************************************************************)
C8_FreshValueIsServed ==
    ( /\ last.op \in {"use", "useSync"}
      /\ Truthy(last.uc) /\ (last.uc.t # "pred" \/ ~last.uc.v)
      /\ Asked.found /\ SpecFresh(AskedRecord, last.at) )
    => (last.ret = AskedRecord.data /\ last.invoked = 0 /\ ~last.pending)

(***************************************************************************)
(* C9: the async use with a callable func and no usable fresh value: once  *)
(* func has completed with a value v, by returning v or by resolving to v, *)
(* the use call completes with v and the record at (func, args) holds v.   *)
(* Stated on the states: a call whose func has so completed has itself     *)
(* completed with v, or the step that completes it can be taken.           *)
(* The code does not do this: line 989 awaits promisify(func)(...args),    *)
(* which settles only when func calls the callback it was handed.          *)
(***************************************************************************)
C9_UseCompletesWithResult ==
    /\ \A i \in DOMAIN calls :
           (calls[i].fn \in {"returned", "resolvedP", "cb"} /\ calls[i].v # Undefined)
           => \/ CanResume(calls[i])
              \/ /\ calls[i].pc = "resolved"
                 /\ calls[i].ret = calls[i].v
    /\ (last.op = "useResume" /\ ~last.fthrew /\ last.data # Undefined)
       => /\ last.ret = last.data
          /\ HasRecord(data, last.key, last.args)
          /\ RecordAt(data, last.key, last.args).data = last.data

(***************************************************************************)
(* C10: if func throws or rejects during use or useSync, the error reaches *)
(* the caller, nothing is cached, and the store is what it was before the  *)
(* call, for every useCache and every prior state of the record.           *)
(* The code does not do this: the cache check (get, line 961) has          *)
(* appended a sample to the used Stat of a fresh record before func is     *)
(* invoked, and a rejecting promise never reaches the caller of use (C9).  *)
(***************************************************************************)
C10_FailedFuncLeavesStore ==
    /\ (last.op \in {"useSync", "use", "useResume"} /\ last.fthrew) => data = pre
    /\ (last.op \in {"useSync", "useResume"} /\ last.fthrew) => last.threw
    /\ \A i \in DOMAIN calls :
           calls[i].fn \in {"threw", "rejectedP", "cbErr"}
           => (CanResume(calls[i]) \/ calls[i].pc = "rejected")

(***************************************************************************)
(* C11: two async use calls on the same (func, args) that overlap, on a    *)
(* store with no fresh record at (func, args): the second call, started    *)
(* while the first is still waiting for its func, invokes func itself, so  *)
(* that func has been invoked twice; nothing de-duplicates the calls.      *)
(* "No fresh record" is taken as: no record, or a record that is stale by  *)
(* the specification's test and by the test of line 958.                   *)
(***************************************************************************)
\* the calls that were waiting when the last call started
EarlierCalls == 1..(Len(calls) - (IF last.pending THEN 1 ELSE 0))

C11_OverlappingUseInvokesTwice ==
    ( /\ last.op = "use" /\ last.key.t = "fn"
      /\ \E i \in EarlierCalls :
            /\ calls[i].pc = "awaiting"
            /\ calls[i].func = last.key /\ calls[i].args = last.args
      /\ ~(Asked.found /\ (SpecFresh(AskedRecord, last.at)
                            \/ IsFresh(AskedRecord, last.at, options))) )
    => /\ last.invoked = 1 /\ last.pending
       /\ Cardinality({i \in DOMAIN calls :
               calls[i].func = last.key /\ calls[i].args = last.args}) >= 2

\* two calls on the same (func, args) are waiting, the func of the first
\* still running when the second invoked it again
C11_Witness ==
    /\ last.op = "use" /\ last.pending /\ Len(calls) = 2
    /\ calls[1].func = calls[2].func /\ calls[1].args = calls[2].args
    /\ calls[1].pc = "awaiting" /\ calls[1].fn = "running"
    /\ calls[2].pc = "awaiting"
    /\ ~Asked.found

(***************************************************************************)
(* C12: use and useSync with a func that is no callable (a plain key) and  *)
(* no usable fresh value from the cache check return what inspect(func,    *)
(* args) holds: the data of the record if there is one, fresh or stale,    *)
(* else "not found"; func is not invoked and nothing is written: no record *)
(* is created or removed, and no record's data, set or changed differs     *)
(* (the cache check's get may have counted a use).                         *)
(***************************************************************************)
\* the store with the used Stats left out
WithoutUsed(store) ==
    [k \in DOMAIN store |->
        [a \in DOMAIN store[k] |->
            [data |-> store[k][a].data, set |-> store[k][a].set,
             changed |-> store[k][a].changed, age_max |-> store[k][a].age_max]]]

\* the cache check of the last call had a fresh value to serve, as the
\* specification defines it
SpecUsable ==
    /\ Truthy(last.uc) /\ Asked.found /\ SpecFresh(AskedRecord, last.at)
    /\ (last.uc.t # "pred" \/ ~last.uc.v)

MergedFrom == last.data.v
InputsAt(s) == {i \in DOMAIN MergedFrom : s \in Slots(MergedFrom[i])}
GreatestSet(s) ==
    CHOOSE t \in {MergedFrom[i][s[1]][s[2]].set : i \in InputsAt(s)} :
        \A i \in InputsAt(s) : MergedFrom[i][s[1]][s[2]].set <= t

C13_MergeKeepsGreatestSet ==
    (last.op = "fromMerge")
    => /\ ~last.threw
       /\ Slots(data) = UNION {Slots(MergedFrom[i]) : i \in DOMAIN MergedFrom}
       /\ \A s \in Slots(data) :
              /\ data[s[1]][s[2]].set = GreatestSet(s)
              /\ \E i \in InputsAt(s) : data[s[1]][s[2]] = MergedFrom[i][s[1]][s[2]]

(***************************************************************************)
(* C14: in fromMerge, when several inputs hold a record for the same       *)
(* (key, args) with equal greatest set timestamps, the merged store keeps  *)
(* the record of the input that comes first in the array.                  *)
(* The code does not do this: fromMerge throws on the first record it      *)
(* meets (C13).                                                            *)
(***************************************************************************)
\* the inputs that hold the greatest set timestamp at a slot
Greatest(s) == {i \in InputsAt(s) : MergedFrom[i][s[1]][s[2]].set = GreatestSet(s)}
TiedSlots ==
    {s \in UNION {Slots(MergedFrom[i]) : i \in DOMAIN MergedFrom} :
        Cardinality(Greatest(s)) >= 2}

C14_MergeTieKeepsFirst ==
    (last.op = "fromMerge" /\ TiedSlots # {})
    => /\ ~last.threw
       /\ \A s \in TiedSlots :
              /\ s \in Slots(data)
              /\ data[s[1]][s[2]] =
                     MergedFrom[CHOOSE i \in Greatest(s) :
                                    \A j \in Greatest(s) : i <= j][s[1]][s[2]]

(***************************************************************************)
(* C15: unset with key omitted and args present, on any store, removes the *)
(* record with that args signature from every key that has it and leaves   *)
(* every other record as it was.                                           *)
(* The code does not do this: line 1040 calls this.unset(key, args) with a *)
(* stored name and the formatted args, the call formats both once more     *)
(* (lines 1033-1034), and delete this.data[key][args] (line 1045) throws a *)
(* TypeError because no sub-map has the name formatted twice.              *)
(***************************************************************************)
\* the records of the store before the last call, and of the store after it
SameRecords(S) == \A s \in S : data[s[1]][s[2]] = pre[s[1]][s[2]]

C15_UnsetArgsFromEveryKey ==
    (last.op = "unset" /\ last.key = Undefined /\ last.args # Undefined)
    => /\ ~last.threw
       /\ Slots(data) = {s \in Slots(pre) : s[2] # SetKey(last.args)}
       /\ SameRecords(Slots(data))

(***************************************************************************)
(* C16: unset(key, args) with both present removes the record at (key,     *)
(* args) if there is one and changes no other record, in every store       *)
(* state, one where key has no sub-map included; unset(key) removes        *)
(* exactly the sub-map of key; unset() leaves the store empty.             *)
(* The code does not do the first when key has no sub-map: delete          *)
(* this.data[key][args] (line 1045) throws a TypeError.                    *)
(***************************************************************************)
C16_UnsetFrame ==
    /\ (last.op = "unset" /\ last.key # Undefined /\ last.args # Undefined)
       => /\ ~last.threw
          /\ Slots(data) = Slots(pre) \ {<<SetKey(last.key), SetKey(last.args)>>}
          /\ SameRecords(Slots(data))
    /\ (last.op = "unset" /\ last.key # Undefined /\ last.args = Undefined)
       => /\ ~last.threw
          /\ DOMAIN data = DOMAIN pre \ {SetKey(last.key)}
          /\ \A k \in DOMAIN data : data[k] = pre[k]
    /\ (last.op = "unset" /\ last.key = Undefined /\ last.args = Undefined)
       => (~last.threw /\ data = EmptyObject)

(***************************************************************************)
(* C19: for every Stat s whose min, max and last are three distinct        *)
(* values, fromCompact(toCompact(s)).toCompact() equals s.toCompact()      *)
(* field by field: count, min, max, sum, last.                             *)
(* The code does not do this for a Stat of four samples or more: the fill  *)
(* value of line 68 is (sum - min - max) / n, not (sum - min - max -       *)
(* last) / n, so the rebuilt Stat sums to sum + last and its fill value    *)
(* can exceed max.                                                         *)
(***************************************************************************)
C19_CompactRoundTrip ==
    ( /\ last.op = "toCompact" /\ last.args # Undefined
      /\ Stat_getMin(last.key.v) # Stat_getMax(last.key.v)
      /\ Stat_getMin(last.key.v) # Stat_getLast(last.key.v, Q(0))
      /\ Stat_getMax(last.key.v) # Stat_getLast(last.key.v, Q(0)) )
    => /\ last.ret.v.count = last.args.v.count
       /\ last.ret.v.min = last.args.v.min
       /\ last.ret.v.max = last.args.v.max
       /\ last.ret.v.sum = last.args.v.sum
       /\ last.ret.v.last = last.args.v.last

(***************************************************************************)
(* C20: for every compact record c that toCompact produces, of the empty   *)
(* Stat and of Stats of one or two samples too, fromCompact(c) returns a   *)
(* Stat whose getCount() is c.count and whose getLast() is c.last.         *)
(* The code does not do this for the empty Stat: c is {count: 0, max:      *)
(* -Infinity, min: Infinity, sum: 0, last: 0}, uncompact is [0], and new   *)
(* Array(0 - 1) (line 67) throws a RangeError.                             *)
(***************************************************************************)
C20_FromCompactCountAndLast ==
    (last.op = "fromCompact")
    => /\ ~last.threw
       /\ Stat_getCount(last.ret.v) = last.data.v.count
       /\ Stat_getLast(last.ret.v, Q(0)) = last.data.v.last

\* the calls that save the store and load it again
Reloads == {"fromJSON", "fromPack"}

\* the store loaded holds the (key, args) of the store saved, each with
\* deep-equal data and the same set timestamp
SameLoaded(saved, loaded) ==
    /\ Slots(loaded) = Slots(saved)
    /\ \A slot \in Slots(saved) :
          /\ DeepEqual(loaded[slot[1]][slot[2]].data, saved[slot[1]][slot[2]].data)
          /\ loaded[slot[1]][slot[2]].set = saved[slot[1]][slot[2]].set

(***************************************************************************)
(* C17: for every store, toPack (or toJSON) followed by fromPack (or       *)
(* fromJSON) gives a store with the same set of (key, args), each with     *)
(* deep-equal data and the same set timestamp, so that get(key, args)      *)
(* within TTL on the loaded store returns a value deep-equal to the        *)
(* payload the store saved held for (key, args).                           *)
(* The code does not do this: get on the loaded store looks a plain string *)
(* key up as it is (line 935) while the record is filed under              *)
(* JSON.stringify(key), and a payload JSON cannot hold (NaN) is loaded as  *)
(* null.                                                                   *)
(***************************************************************************)
C17_PackRoundTrip ==
    [][ /\ (last'.op \in Reloads /\ steps' = steps + 1) => SameLoaded(data, data')
        /\ ( /\ last.op \in Reloads /\ last'.op = "get" /\ steps' = steps + 1
             /\ HasRecord(pre, last'.key, last'.args)
             /\ SpecFresh(RecordAt(pre, last'.key, last'.args), now) )
           => DeepEqual(last'.ret, RecordAt(pre, last'.key, last'.args).data) ]_vars

\* the Stat s without its last sample reports the count, min, max and last
\* of the Stat before
ReportsPlusOne(s, before) ==
    /\ Stat_getCount(s) = Stat_getCount(before) + 1
    /\ Stat_getCount(Stat_new(SubSeq(s.values, 1, Len(s.values) - 1))) = Stat_getCount(before)
    /\ Stat_getMin(Stat_new(SubSeq(s.values, 1, Len(s.values) - 1))) = Stat_getMin(before)
    /\ Stat_getMax(Stat_new(SubSeq(s.values, 1, Len(s.values) - 1))) = Stat_getMax(before)
    /\ Stat_getLast(Stat_new(SubSeq(s.values, 1, Len(s.values) - 1)), Q(0))
           = Stat_getLast(before, Q(0))

\* the record of the store saved has samples in both of its Stats
HasSamples(rec) == Stat_getCount(rec.changed) >= 1 /\ Stat_getCount(rec.used) >= 1

(***************************************************************************)
(* C18: a record's statistics survive toJSON then fromJSON: for a record   *)
(* whose changed and used Stats hold n >= 1 samples, after the first       *)
(* mutation that upgrades them on the loaded store (a changing set, a      *)
(* fresh get) the Stat reports the count, min, max and last it had before  *)
(* it was saved, plus the new sample.                                      *)
(* The code does not do this: toJSON writes a Stat as {values: [...]},     *)
(* never its compact form, and Stat.fromCompact of that plain object       *)
(* (lines 54-73) is a new empty Stat: the samples are lost.                *)
(***************************************************************************)
C18_StatsSurviveReload ==
    [][ ( /\ last.op = "fromJSON" /\ steps' = steps + 1
          /\ last'.op \in {"set", "get"} /\ ~last'.threw
          /\ HasRecord(pre, last'.key, last'.args)
          /\ HasSamples(RecordAt(pre, last'.key, last'.args)) )
        => /\ ( /\ last'.op = "set" /\ last'.data # Undefined
                /\ PayloadDiffers(last'.data, RecordAt(data, last'.key, last'.args).data) )
              => ReportsPlusOne(RecordAt(data', last'.key, last'.args).changed,
                                RecordAt(pre, last'.key, last'.args).changed)
           /\ (last'.op = "get" /\ last'.ret # Undefined)
              => ReportsPlusOne(RecordAt(data', last'.key, last'.args).used,
                                RecordAt(pre, last'.key, last'.args).used) ]_vars

(***************************************************************************)
(* C21: fromJSON on a string that fails to parse as JSON yields an empty   *)
(* store and no error reaches the caller; on a text that parses to         *)
(* something other than an object (an array, a number, a string) it fails  *)
(* with an error and yields no store.                                      *)
(* The code does not do this: line 773 calls JSON.parse with no try, so    *)
(* the SyntaxError reaches the caller; and the constructor replaces a      *)
(* falsy value (0, "", null, false) by {} (line 668) before it tests the   *)
(* type, so those texts give an empty store and no error.                  *)
(***************************************************************************)
C21_FromJSONMalformed ==
    (last.op = "fromJSON")
    => /\ JSON_parse(last.data).threw => (~last.threw /\ data = EmptyObject)
       /\ ( /\ ~JSON_parse(last.data).threw
            /\ JSON_parse(last.data).v.t \in {"arr", "num", "str"} )
          => last.threw

\* the set (or get) that led from the store before to the store after
\* appended one sample to the Stat named which of the record of (key, args)
Appended(before, after, key, args, which) ==
    /\ HasRecord(before, key, args) /\ HasRecord(after, key, args)
    /\ Stat_getCount(RecordAt(after, key, args)[which])
          = Stat_getCount(RecordAt(before, key, args)[which]) + 1

(***************************************************************************)
(* C22: every sample of a record's changed Stat is the interval between    *)
(* two payload-changing writes: when a set that changed the payload of     *)
(* (key, args) is followed by the next set that changes it, the sample     *)
(* appended is the time of this write minus the time of that one.          *)
(* The code does not do this: line 915 appends time_now -                  *)
(* changed.getLast(time_now), and getLast is the last sample, an interval, *)
(* not the time of the last change.                                        *)
(***************************************************************************)
C22_ChangedHoldsIntervals ==
    [][ ( /\ last.op = "set" /\ last'.op = "set" /\ steps' = steps + 1
          /\ last'.key = last.key /\ last'.args = last.args
          /\ Appended(pre, data, last.key, last.args, "changed")
          /\ ~DeepEqual(last.data, RecordAt(pre, last.key, last.args).data)
          /\ Appended(data, data', last.key, last.args, "changed")
          /\ ~DeepEqual(last'.data, last.data) )
        => Stat_getLast(RecordAt(data', last.key, last.args).changed, Q(0))
              = Q(now - last.at) ]_vars

\* the used Stat of the record get(key, args) looks up
UsedAt(store, key, args) ==
    store[Cache_inspect(store, key, args).k][Cache_inspect(store, key, args).a].used

\* the get(key, args) that led from the store before to the store after was
\* a fresh hit: it appended one sample to the used Stat of its record
Hit(before, after, key, args) ==
    /\ Cache_inspect(before, key, args).found
    /\ Stat_getCount(UsedAt(after, key, args))
          = Stat_getCount(UsedAt(before, key, args)) + 1

(***************************************************************************)
(* C23: every sample of a record's used Stat is the gap since the last     *)
(* hit: the first sample is the time of the hit minus record.set, and the  *)
(* sample of a hit that follows a hit is the time of this hit minus the    *)
(* time of that one.                                                       *)
(* The code does not do this: line 961 appends time_now -                  *)
(* used.getLast(cache.set), and getLast is the last sample, a gap, not the *)
(* time of the last hit.                                                   *)
(***************************************************************************)
C23_UsedHoldsGaps ==
    [][ ( /\ last'.op = "get" /\ steps' = steps + 1
          /\ Hit(data, data', last'.key, last'.args) )
        => /\ Stat_getCount(UsedAt(data, last'.key, last'.args)) = 0
              => Stat_getLast(UsedAt(data', last'.key, last'.args), Q(0))
                    = Q(now - data[Cache_inspect(data, last'.key, last'.args).k]
                                  [Cache_inspect(data, last'.key, last'.args).a].set)
           /\ ( /\ last.op = "get" /\ last.key = last'.key /\ last.args = last'.args
                /\ Hit(pre, data, last.key, last.args) )
              => Stat_getLast(UsedAt(data', last'.key, last'.args), Q(0))
                    = Q(now - last.at) ]_vars

\* x <= y
QLeq(x, y) == ~QLess(y, x)

(***************************************************************************)
(* C24: for every Stat with count > 0, made of numbers added or            *)
(* synthesized by fromCompact: getMin() <= every value <= getMax(),        *)
(* getAverage() is getSum() / getCount(), and getMax() >= getAverage() >=  *)
(* getMin().  The Stats are the receivers of toCompact (the Stats the      *)
(* chain starts from and the synthesized ones) and the results of          *)
(* fromCompact.                                                            *)
(***************************************************************************)
StatLaws(s) ==
    Stat_getCount(s) > 0
    => /\ \A i \in DOMAIN s.values :
             QLeq(Stat_getMin(s), s.values[i]) /\ QLeq(s.values[i], Stat_getMax(s))
       /\ Stat_getAverage(s) = QDivInt(Stat_getSum(s), Stat_getCount(s))
       /\ QLeq(Stat_getAverage(s), Stat_getMax(s))
       /\ QLeq(Stat_getMin(s), Stat_getAverage(s))

C24_StatLaws ==
    /\ last.op = "toCompact" => StatLaws(last.data.v)
    /\ (last.op = "fromCompact" /\ ~last.threw) => StatLaws(last.ret.v)

\* fromCompact synthesized a Stat with fill values between distinct min, max
\* and last
C24_Witness ==
    /\ last.op = "fromCompact" /\ ~last.threw
    /\ Stat_getCount(last.ret.v) = MaxSamples
    /\ QLess(Stat_getMin(last.ret.v), Stat_getAverage(last.ret.v))
    /\ QLess(Stat_getAverage(last.ret.v), Stat_getMax(last.ret.v))

\* the number of samples a Stat stands for, compact or full
CountOf(x) == IF x.form = "compact" THEN x.count ELSE Len(x.values)

\* the Stat after holds one sample more than before stood for; a full Stat
\* has kept its samples
Upgraded(before, after) ==
    /\ after.form = "Stat"
    /\ Stat_getCount(after) = CountOf(before) + 1
    /\ before.form = "Stat"
          => SubSeq(after.values, 1, Len(before.values)) = before.values

(***************************************************************************)
(* C25: in a store loaded from the persisted layout, where a record's      *)
(* used (or changed) is a compact record {count: n, min, max, sum, last},  *)
(* n >= 0, the first fresh get (or payload-changing set) upgrades it to a  *)
(* full Stat and appends one sample, after which getCount() is n + 1; a    *)
(* Stat that is full already keeps all its samples.                        *)
(* The code does not do this for n = 0: fromCompact of {count: 0, ...}     *)
(* builds uncompact = [last] and new Array(0 - 1) throws a RangeError      *)
(* (line 67), so the get or the set throws.                                *)
(***************************************************************************)
C25_CompactUpgrade ==
    /\ ( /\ last.op = "get" /\ Asked.found /\ SpecFresh(AskedRecord, last.at) )
       => ~last.threw /\ Upgraded(AskedRecord.used, UsedAt(data, last.key, last.args))
    /\ ( /\ last.op = "set" /\ last.data # Undefined
         /\ HasRecord(pre, last.key, last.args)
         /\ ~DeepEqual(last.data, RecordAt(pre, last.key, last.args).data) )
       => /\ ~last.threw
          /\ Upgraded(RecordAt(pre, last.key, last.args).changed,
                      RecordAt(data, last.key, last.args).changed)

\* the last call was given a use_cache that asks for func to run: a falsy
\* one, or a predicate that answers true for the cached value
AsksForFunc(uc) == uc = Bool(FALSE) \/ (uc.t = "pred" /\ uc.v)

\* the record of (key, args) holds the result d, written at t
Replaced(store, key, args, d, t) ==
    /\ HasRecord(store, key, args)
    /\ RecordAt(store, key, args).data = d
    /\ RecordAt(store, key, args).set = t

(***************************************************************************)
(* C26: use and useSync with a callable func: when useCache is falsy, or   *)
(* is a predicate that returns true for the fresh cached value, func is    *)
(* invoked exactly once even though a fresh record exists, and its result, *)
(* if not undefined, replaces record.data and resets record.set to the     *)
(* time of the write (for use, when the callback has delivered it).        *)
(***************************************************************************)
C26_UseBypassesCache ==
    /\ ( /\ last.op \in {"use", "useSync"} /\ last.key.t = "fn"
         /\ Asked.found /\ SpecFresh(AskedRecord, last.at) /\ AsksForFunc(last.uc) )
       => /\ last.invoked = 1
          /\ (last.op = "useSync" /\ ~last.fthrew /\ last.data # Undefined)
             => ~last.threw /\ Replaced(data, last.key, last.args, last.data, last.at)
    /\ (last.op = "useResume" /\ ~last.fthrew /\ last.data # Undefined)
       => ~last.threw /\ Replaced(data, last.key, last.args, last.data, last.at)

\* a predicate answered true for a fresh cached 1 and func returned 0, which
\* was written a tick after the record
C26_Witness ==
    /\ last.op = "useSync" /\ last.key.t = "fn" /\ last.uc.t = "pred" /\ last.uc.v
    /\ Asked.found /\ SpecFresh(AskedRecord, last.at)
    /\ AskedRecord.data = Num(1) /\ AskedRecord.set < last.at
    /\ last.invoked = 1 /\ last.data = Num(0)
    /\ Replaced(data, last.key, last.args, Num(0), last.at)

(***************************************************************************)
(* C27: if set throws (the key, the args or the data cannot be             *)
(* JSON-encoded), the store is exactly as it was before the call: no empty *)
(* sub-map for the key and no record has been added, no record changed.    *)
(* The code does not do this: the sub-map is created (line 897) before     *)
(* formatKey(args) throws (line 902), and the record is created (lines     *)
(* 904-909) before JSON.stringify(data) throws (line 912).                 *)
(***************************************************************************)
C27_ThrowingSetLeavesStore ==
    (last.op = "set" /\ last.threw) => data = pre

\* the record after is the record before but for its used Stat
SameButUsed(before, after) ==
    /\ after.data = before.data /\ after.set = before.set
    /\ after.changed = before.changed /\ after.age_max = before.age_max

C29_CleanReadsKeptRecords ==
    (last.op = "clean" /\ ~last.threw)
    => \A slot \in Slots(data) :
          /\ slot \in Slots(pre)
          /\ SameButUsed(pre[slot[1]][slot[2]], data[slot[1]][slot[2]])
          /\ Upgraded(pre[slot[1]][slot[2]].used, data[slot[1]][slot[2]].used)

=============================================================================
